---- MODULE Spec2Model ----
(***************************************************************************)
(* SliceString (quartiq/slice-string, src/lib.rs): a UTF-8 string over a   *)
(* caller-owned byte buffer, held in a tinyvec SliceVec<u8>.               *)
(*                                                                         *)
(* The backing buffer is `mem` (bytes 1..BufLen).  A SliceVec is a window  *)
(* [off, cap, len] on it: data = mem[off+1 .. off+cap], occupied prefix    *)
(* mem[off+1 .. off+len].  `views` holds every live SliceString: the one   *)
(* the constructor built and every one split_off returned.                 *)
(***************************************************************************)
EXTENDS Integers, Sequences, FiniteSets, TLC

\* Size of the caller's buffer.
BufLen == 5
\* Number of operations applied after construction.
MaxOps == 2

\* usize arithmetic: the narrowest usize Rust supports is 16 bits wide.
UsizeMod == 2^16

\* status: unbuilt, running, failed (the constructor returned an error), aborted
\* (a panic), ub (undefined behaviour was reached).  last and plast describe the
\* last two calls; pmem and pviews are the buffer and the views before the last.
\* text0 is the text the constructor built the view with, popped the chars pop
\* has returned since, in the order it returned them.
VARIABLES status, mem, views, last, plast, pmem, pviews, nops, text0, popped

vars == <<status, mem, views, last, plast, pmem, pviews, nops, text0, popped>>

--------------------------------------------------------------------------
(* Inputs *)

\* 'a', U+00E9, U+20AC, U+1F600: scalars of encoded length 1, 2, 3 and 4.
CharSet == {97, 233, 8364, 128512}

Fill(n, b) == [i \in 1..n |-> b]

\* "fo", "é", a text that exactly fills an empty buffer, one that is too long.
StrSet == {<< >>, <<102, 111>>, <<195, 169>>, Fill(BufLen, 111), Fill(BufLen + 1, 111)}

\* Offsets for truncate and split_off: below, at and beyond the capacity.
OffsetSet == 0..(BufLen + 1)

\* The caller's buffer before construction: a text followed by stale bytes.
Pad(text, b) == [i \in 1..BufLen |-> IF i <= Len(text) THEN text[i] ELSE b]

InitBufs ==
    { Pad(<< >>, 0),                          \* [0u8; N], as in tests::new
      Pad(<< >>, 255),                        \* no valid text at all
      Pad(<<102, 111, 114>>, 169),            \* "for", then stale continuation bytes
      Pad(<<97, 195, 169>>, 255),             \* "aé"
      Pad(<<226, 130, 172, 97>>, 128),        \* "€a"
      Pad(<<240, 159, 152, 128>>, 97),        \* U+1F600
      Pad(Fill(BufLen, 97), 97) }             \* a full buffer of 'a'

--------------------------------------------------------------------------
(* UTF-8 primitives of core::str and core::char *)

IsCont(b) == b >= 128 /\ b < 192

\* core::str::validations::UTF8_CHAR_WIDTH
utf8_char_width(b) ==
    IF b < 128 THEN 1
    ELSE IF b >= 194 /\ b <= 223 THEN 2
    ELSE IF b >= 224 /\ b <= 239 THEN 3
    ELSE IF b >= 240 /\ b <= 244 THEN 4
    ELSE 0

\* core::str::validations::run_utf8_validation: the number of leading bytes of
\* s, from index i on, that form well-formed sequences (Utf8Error::valid_up_to).
RECURSIVE valid_up_to(_, _)
valid_up_to(s, i) ==
    IF i > Len(s) THEN Len(s)
    ELSE LET first == s[i]
             w == utf8_char_width(first)
             has(k) == i + k <= Len(s)
         IN  IF w = 1 THEN valid_up_to(s, i + 1)
             ELSE IF w = 2 THEN
                 IF has(1) /\ IsCont(s[i + 1]) THEN valid_up_to(s, i + 2) ELSE i - 1
             ELSE IF w = 3 THEN
                 IF /\ has(2)
                    /\ \/ first = 224 /\ s[i + 1] >= 160 /\ s[i + 1] <= 191
                       \/ first >= 225 /\ first <= 236 /\ IsCont(s[i + 1])
                       \/ first = 237 /\ s[i + 1] >= 128 /\ s[i + 1] <= 159
                       \/ first >= 238 /\ first <= 239 /\ IsCont(s[i + 1])
                    /\ IsCont(s[i + 2])
                 THEN valid_up_to(s, i + 3) ELSE i - 1
             ELSE IF w = 4 THEN
                 IF /\ has(3)
                    /\ \/ first = 240 /\ s[i + 1] >= 144 /\ s[i + 1] <= 191
                       \/ first >= 241 /\ first <= 243 /\ IsCont(s[i + 1])
                       \/ first = 244 /\ s[i + 1] >= 128 /\ s[i + 1] <= 143
                    /\ IsCont(s[i + 2])
                    /\ IsCont(s[i + 3])
                 THEN valid_up_to(s, i + 4) ELSE i - 1
             ELSE i - 1

\* str::from_utf8(s).is_ok()
IsUtf8(s) == valid_up_to(s, 1) = Len(s)

\* char::len_utf8
len_utf8(c) ==
    IF c < 128 THEN 1
    ELSE IF c < 2048 THEN 2
    ELSE IF c < 65536 THEN 3
    ELSE 4

\* char::encode_utf8: the 1 to 4 bytes written at the start of the buffer.
encode_utf8(c) ==
    IF c < 128 THEN <<c>>
    ELSE IF c < 2048 THEN <<192 + (c \div 64), 128 + (c % 64)>>
    ELSE IF c < 65536 THEN
        <<224 + (c \div 4096), 128 + ((c \div 64) % 64), 128 + (c % 64)>>
    ELSE <<240 + (c \div 262144), 128 + ((c \div 4096) % 64),
           128 + ((c \div 64) % 64), 128 + (c % 64)>>

\* str::is_char_boundary
is_char_boundary(s, index) ==
    IF index = 0 THEN TRUE
    ELSE IF index >= Len(s) THEN index = Len(s)
    ELSE ~IsCont(s[index + 1])

\* str::chars().next_back() on a non-empty valid text
\* (core::str::validations::next_code_point_reverse).
next_back(s) ==
    LET n == Len(s)
        w == s[n]
    IN  IF w < 128 THEN w
        ELSE LET z == s[n - 1]
             IN  IF ~IsCont(z) THEN (z % 32) * 64 + (w % 64)
                 ELSE LET y == s[n - 2]
                      IN  IF ~IsCont(y)
                          THEN ((y % 16) * 64 + (z % 64)) * 64 + (w % 64)
                          ELSE LET x == s[n - 3]
                               IN  (((x % 8) * 64 + (y % 64)) * 64 + (z % 64)) * 64
                                   + (w % 64)

--------------------------------------------------------------------------
(* SliceVec<u8> (tinyvec), as SliceString uses it *)

\* An outcome of an operation on one view: what it returned or how it ended
\* (res), the buffer (m), the view (vw), a view it created (nv, << >> if none)
\* and a char it returned (ret, -1 if none).
Out(res, m, vw, nv, ret) == [res |-> res, m |-> m, vw |-> vw, nv |-> nv, ret |-> ret]

Panic(m, vw) == Out("abort", m, vw, << >>, -1)

Ub(m, vw) == Out("ub", m, vw, << >>, -1)

\* SliceVec::capacity, through SliceString::capacity
capacity(vw) == vw.cap

\* Deref of SliceVec: &self.data[..self.len]
as_bytes(m, vw) == [i \in 1..vw.len |-> m[vw.off + i]]

\* SliceString::as_str (and str::len on it)
as_str(m, vw) == as_bytes(m, vw)

str_len(m, vw) == Len(as_str(m, vw))

\* Writing sli into data[at ..] (at counted from 0).
write_at(m, vw, at, sli) ==
    [i \in 1..BufLen |->
        IF i > vw.off + at /\ i <= vw.off + at + Len(sli)
        THEN sli[i - vw.off - at] ELSE m[i]]

\* SliceVec::push: panics when the vec is full.
sv_push(m, vw, b) ==
    IF vw.len < vw.cap
    THEN Out("ok", write_at(m, vw, vw.len, <<b>>), [vw EXCEPT !.len = vw.len + 1], << >>, -1)
    ELSE Panic(m, vw)

\* SliceVec::extend_from_slice: panics when the total length exceeds the capacity.
sv_extend_from_slice(m, vw, sli) ==
    IF Len(sli) = 0 THEN Out("ok", m, vw, << >>, -1)
    ELSE IF vw.len + Len(sli) > vw.cap THEN Panic(m, vw)
    ELSE Out("ok", write_at(m, vw, vw.len, sli),
             [vw EXCEPT !.len = vw.len + Len(sli)], << >>, -1)

\* SliceVec::truncate for a type without Drop
sv_truncate(vw, new_len) ==
    [vw EXCEPT !.len = IF new_len < vw.len THEN new_len ELSE vw.len]

\* SliceVec::split_off: split_at_mut panics beyond the capacity; `self.len - at`
\* overflows when at > len, which panics in a build with overflow checks and
\* wraps in one without.
sv_split_off(m, vw, at) ==
    IF at > vw.cap THEN {Panic(m, vw)}
    ELSE LET me == [off |-> vw.off, cap |-> at, len |-> at]
             other(n) == [off |-> vw.off + at, cap |-> vw.cap - at, len |-> n]
         IN  IF at <= vw.len
             THEN {Out("ok", m, me, <<other(vw.len - at)>>, -1)}
             ELSE {Panic(m, vw),
                   Out("ok", m, me, <<other((vw.len - at) % UsizeMod)>>, -1)}

--------------------------------------------------------------------------
(* SliceString *)

\* Every method but clear and capacity reads the text through as_str: the
\* SliceVec deref `&data[..len]` is bounds-checked, and str::from_utf8_unchecked
\* on bytes that are not UTF-8 is undefined behaviour.
through_as_str(m, vw, outs) ==
    IF vw.len > vw.cap THEN {Panic(m, vw)}
    ELSE IF ~IsUtf8(as_bytes(m, vw)) THEN {Ub(m, vw)}
    ELSE outs

\* SliceString::clear
clear(m, vw) == {Out("ok", m, sv_truncate(vw, 0), << >>, -1)}

\* truncate without the `new_len <= self.len()` guard.
truncate_unguarded(m, vw, new_len) ==
    through_as_str(m, vw,
        IF is_char_boundary(as_str(m, vw), new_len)
        THEN {Out("ok", m, sv_truncate(vw, new_len), << >>, -1)}
        ELSE {Panic(m, vw)})

\* truncate without the char-boundary assert.
truncate_no_assert(m, vw, new_len) ==
    through_as_str(m, vw,
        IF new_len <= str_len(m, vw)
        THEN {Out("ok", m, sv_truncate(vw, new_len), << >>, -1)}
        ELSE {Out("ok", m, vw, << >>, -1)})

\* truncate whose length guard is inverted.
truncate_inverted_guard(m, vw, new_len) ==
    through_as_str(m, vw,
        IF str_len(m, vw) <= new_len
        THEN IF is_char_boundary(as_str(m, vw), new_len)
             THEN {Out("ok", m, sv_truncate(vw, new_len), << >>, -1)}
             ELSE {Panic(m, vw)}
        ELSE {Out("ok", m, vw, << >>, -1)})

\* SliceString::truncate
truncate(m, vw, new_len) ==
    through_as_str(m, vw,
        IF new_len <= str_len(m, vw)
        THEN IF is_char_boundary(as_str(m, vw), new_len)
             THEN {Out("ok", m, sv_truncate(vw, new_len), << >>, -1)}
             ELSE {Panic(m, vw)}
        ELSE {Out("ok", m, vw, << >>, -1)})

\* pop that removes one byte, not one char.
pop_one_byte(m, vw) ==
    through_as_str(m, vw,
        IF str_len(m, vw) = 0 THEN {Out("none", m, vw, << >>, -1)}
        ELSE LET ch == next_back(as_str(m, vw))
             IN  {Out("some", m, sv_truncate(vw, str_len(m, vw) - 1), << >>, ch)})

\* SliceString::pop
pop(m, vw) ==
    through_as_str(m, vw,
        IF str_len(m, vw) = 0 THEN {Out("none", m, vw, << >>, -1)}
        ELSE LET ch == next_back(as_str(m, vw))
             IN  {Out("some", m, sv_truncate(vw, str_len(m, vw) - len_utf8(ch)), << >>, ch)})

\* push whose capacity check forgets the length of the char.
push_check_len_only(m, vw, c) ==
    through_as_str(m, vw,
        LET len == len_utf8(c)
        IN  IF capacity(vw) < str_len(m, vw) THEN {Out("err", m, vw, << >>, -1)}
            ELSE IF len = 1 THEN {sv_push(m, vw, c % 256)}
            ELSE LET enc == encode_utf8(c)
                     buf == [i \in 1..4 |-> IF i <= Len(enc) THEN enc[i] ELSE 0]
                 IN  {sv_extend_from_slice(m, vw, buf)})

\* SliceString::push
push(m, vw, c) ==
    through_as_str(m, vw,
        LET len == len_utf8(c)
        IN  IF capacity(vw) < str_len(m, vw) + len THEN {Out("err", m, vw, << >>, -1)}
            ELSE IF len = 1 THEN {sv_push(m, vw, c % 256)}
            ELSE LET enc == encode_utf8(c)
                     buf == [i \in 1..4 |-> IF i <= Len(enc) THEN enc[i] ELSE 0]
                 IN  {sv_extend_from_slice(m, vw, buf)})

\* push_str that writes the text at the start of the storage.
push_str_overwrite(m, vw, string) ==
    through_as_str(m, vw,
        IF capacity(vw) < str_len(m, vw) + Len(string) THEN {Out("err", m, vw, << >>, -1)}
        ELSE {sv_extend_from_slice(m, sv_truncate(vw, 0), string)})

\* push_str that refuses a text that exactly fills the capacity.
push_str_strict(m, vw, string) ==
    through_as_str(m, vw,
        IF capacity(vw) <= str_len(m, vw) + Len(string) THEN {Out("err", m, vw, << >>, -1)}
        ELSE {sv_extend_from_slice(m, vw, string)})

\* SliceString::push_str
push_str(m, vw, string) ==
    through_as_str(m, vw,
        IF capacity(vw) < str_len(m, vw) + Len(string) THEN {Out("err", m, vw, << >>, -1)}
        ELSE {sv_extend_from_slice(m, vw, string)})

\* split_off that truncates the original and returns an empty view of the tail.
split_off_empty_tail(m, vw, at) ==
    through_as_str(m, vw,
        IF at <= str_len(m, vw) /\ ~is_char_boundary(as_str(m, vw), at)
        THEN {Panic(m, vw)}
        ELSE {IF o.res = "ok" THEN [o EXCEPT !.nv = <<[o.nv[1] EXCEPT !.len = 0]>>] ELSE o :
                 o \in sv_split_off(m, vw, at)})

\* split_off whose original keeps the whole storage.
split_off_keep_capacity(m, vw, at) ==
    through_as_str(m, vw,
        IF at <= str_len(m, vw) /\ ~is_char_boundary(as_str(m, vw), at)
        THEN {Panic(m, vw)}
        ELSE {IF o.res = "ok" THEN [o EXCEPT !.vw = [o.vw EXCEPT !.cap = vw.cap]] ELSE o :
                 o \in sv_split_off(m, vw, at)})

\* split_off whose returned view starts at the occupied length, not at `at`.
split_off_tail_at_len(m, vw, at) ==
    through_as_str(m, vw,
        IF at <= str_len(m, vw) /\ ~is_char_boundary(as_str(m, vw), at)
        THEN {Panic(m, vw)}
        ELSE {IF o.res = "ok"
              THEN [o EXCEPT !.nv = <<[o.nv[1] EXCEPT !.off = vw.off + vw.len,
                                                      !.cap = vw.cap - vw.len]>>]
              ELSE o : o \in sv_split_off(m, vw, at)})

\* SliceString::split_off
split_off(m, vw, at) ==
    through_as_str(m, vw,
        IF at <= str_len(m, vw) /\ ~is_char_boundary(as_str(m, vw), at)
        THEN {Panic(m, vw)}
        ELSE sv_split_off(m, vw, at))

\* map_err(|_| fmt::Error) of fmt::Write
map_err(outs) == {IF o.res = "err" THEN [o EXCEPT !.res = "fmt_err"] ELSE o : o \in outs}

\* fmt::Write::write_str
write_str(m, vw, s) == map_err(push_str(m, vw, s))

\* fmt::Write::write_char
write_char(m, vw, c) == map_err(push(m, vw, c))

\* SliceVec::from_slice_len over the region of size bytes that starts at ptr.
from_slice_len(ptr, size, len) == [off |-> ptr, cap |-> size, len |-> len]

\* SliceString::from_utf8_unchecked (through new_unchecked) on the whole buffer
from_utf8_unchecked(len) == from_slice_len(0, BufLen, len)

\* The conversion into (region, length) with a region as long as the text.
into_parts_text_sized(m, vw) ==
    [ptr |-> vw.off, size |-> str_len(m, vw), len |-> str_len(m, vw)]

\* From<SliceString> for (&mut [u8], usize): the region is
\* from_raw_parts_mut(as_mut_ptr(), capacity()), the length is len().
into_parts(m, vw) ==
    [ptr |-> vw.off, size |-> capacity(vw), len |-> str_len(m, vw)]

\* `let (buf, len) = s.into(); SliceString::from_utf8_unchecked(buf, len)`;
\* from_slice_len asserts len <= buf.len().
round_trip(m, vw) ==
    through_as_str(m, vw,
        LET p == into_parts(m, vw)
        IN  IF p.len > p.size THEN {Panic(m, vw)}
            ELSE {Out("ok", m, from_slice_len(p.ptr, p.size, p.len), << >>, -1)})

\* The texts of two views are read through as_str.
both_as_str(m, va, vb, outs) ==
    IF va.len > va.cap \/ vb.len > vb.cap THEN {Panic(m, va)}
    ELSE IF ~IsUtf8(as_bytes(m, va)) \/ ~IsUtf8(as_bytes(m, vb)) THEN {Ub(m, va)}
    ELSE outs

\* Ord for str: the bytes are compared from index i on, then the lengths.
RECURSIVE str_cmp(_, _, _)
str_cmp(a, b, i) ==
    IF i > Len(a) \/ i > Len(b)
    THEN IF Len(a) < Len(b) THEN "Less" ELSE IF Len(a) > Len(b) THEN "Greater" ELSE "Equal"
    ELSE IF a[i] < b[i] THEN "Less"
    ELSE IF a[i] > b[i] THEN "Greater"
    ELSE str_cmp(a, b, i + 1)

\* eq that compares the whole storage of the two views.
eq_whole_storage(m, va, vb) ==
    both_as_str(m, va, vb,
        {Out(IF as_bytes(m, [va EXCEPT !.len = va.cap]) = as_bytes(m, [vb EXCEPT !.len = vb.cap])
             THEN "true" ELSE "false", m, va, << >>, -1)})

\* PartialEq for SliceString: str::eq(&**self, &**rhs)
eq(m, va, vb) ==
    both_as_str(m, va, vb,
        {Out(IF as_str(m, va) = as_str(m, vb) THEN "true" ELSE "false", m, va, << >>, -1)})

\* Ord / PartialOrd for SliceString: Ord::cmp(&**self, &**other)
cmp(m, va, vb) ==
    both_as_str(m, va, vb, {Out(str_cmp(as_str(m, va), as_str(m, vb), 1), m, va, << >>, -1)})

\* from_utf8 that trusts the bytes.
from_utf8_no_validation(m, len) ==
    IF len > BufLen THEN [res |-> "abort", n |-> len] ELSE [res |-> "ok", n |-> len]

\* SliceString::from_utf8 on the whole buffer: `&buf[..len]` panics beyond the
\* buffer; a decode error carries valid_up_to.
from_utf8(m, len) ==
    IF len > BufLen THEN [res |-> "abort", n |-> len]
    ELSE LET s == [i \in 1..len |-> m[i]]
         IN  IF IsUtf8(s) THEN [res |-> "ok", n |-> len]
             ELSE [res |-> "utf8_err", n |-> valid_up_to(s, 1)]

--------------------------------------------------------------------------
(* The state machine *)

\* A call: the operation, the view it was applied to (v) and that view's
\* length before it (plen), its arguments (n, c, s), its result (res; ret is the
\* char pop returned, or valid_up_to of a decode error).
NoOp == [op |-> "none", v |-> 0, plen |-> -1, n |-> -1, c |-> -1, s |-> << >>,
         res |-> "none", ret |-> -1]

Ops == {"clear", "truncate", "pop", "push", "push_str", "split_off", "write_str", "write_char"}

Init ==
    /\ status = "unbuilt"
    /\ mem \in InitBufs
    /\ views = << >>
    /\ last = NoOp
    /\ plast = NoOp
    /\ pmem = mem
    /\ pviews = << >>
    /\ nops = 0
    /\ text0 = << >>
    /\ popped = << >>

\* A constructor returned r for the length len.
Construct(opname, len, r) ==
    /\ status = "unbuilt"
    /\ status' = IF r.res = "ok" THEN "running"
                 ELSE IF r.res = "abort" THEN "aborted" ELSE "failed"
    /\ views' = IF r.res = "ok" THEN <<from_utf8_unchecked(len)>> ELSE << >>
    /\ last' = [NoOp EXCEPT !.op = opname, !.n = len, !.res = r.res,
                            !.ret = IF r.res = "utf8_err" THEN r.n ELSE -1]
    /\ plast' = last
    /\ pmem' = mem
    /\ pviews' = views
    /\ text0' = IF r.res = "ok" THEN as_bytes(mem, from_utf8_unchecked(len)) ELSE << >>
    /\ UNCHANGED <<mem, nops, popped>>

\* SliceString::new
New == Construct("new", 0, [res |-> "ok", n |-> 0])

\* SliceString::from_utf8
FromUtf8(len) == Construct("from_utf8", len, from_utf8(mem, len))

\* TryFrom<&mut [u8]>
TryFromSlice == Construct("try_from", BufLen, from_utf8(mem, BufLen))

\* A call on view v ended in one of the outcomes outs.
Call(opname, v, n, c, s, outs) ==
    /\ \E o \in outs :
        /\ status' = IF o.res = "abort" THEN "aborted"
                     ELSE IF o.res = "ub" THEN "ub" ELSE "running"
        /\ mem' = o.m
        /\ views' = [views EXCEPT ![v] = o.vw] \o o.nv
        /\ last' = [op |-> opname, v |-> v, plen |-> views[v].len, n |-> n, c |-> c,
                    s |-> s, res |-> o.res, ret |-> o.ret]
        /\ popped' = IF o.res = "some" THEN Append(popped, o.ret) ELSE popped
    /\ plast' = last
    /\ pmem' = mem
    /\ pviews' = views
    /\ nops' = nops + 1
    /\ UNCHANGED text0

\* One operation on a live view, of at most MaxOps.
Step(opname, v, n, c, s, outs) ==
    /\ status = "running"
    /\ nops < MaxOps
    /\ Call(opname, v, n, c, s, outs)

Clear(v) == Step("clear", v, -1, -1, << >>, clear(mem, views[v]))

Truncate(v, n) == Step("truncate", v, n, -1, << >>, truncate(mem, views[v], n))

Pop(v) == Step("pop", v, -1, -1, << >>, pop(mem, views[v]))

Push(v, c) == Step("push", v, -1, c, << >>, push(mem, views[v], c))

PushStr(v, s) == Step("push_str", v, -1, -1, s, push_str(mem, views[v], s))

SplitOff(v, at) == Step("split_off", v, at, -1, << >>, split_off(mem, views[v], at))

WriteStr(v, s) == Step("write_str", v, -1, -1, s, write_str(mem, views[v], s))

WriteChar(v, c) == Step("write_char", v, -1, c, << >>, write_char(mem, views[v], c))

RoundTrip(v) == Step("round_trip", v, -1, -1, << >>, round_trip(mem, views[v]))

\* The second view w is recorded as the argument n of the call.
Eq(v, w) == Step("eq", v, w, -1, << >>, eq(mem, views[v], views[w]))

Cmp(v, w) == Step("cmp", v, w, -1, << >>, cmp(mem, views[v], views[w]))

Next ==
    \/ New
    \/ \E len \in OffsetSet : FromUtf8(len)
    \/ TryFromSlice
    \/ \E v \in DOMAIN views : Clear(v)
    \/ \E v \in DOMAIN views, n \in OffsetSet : Truncate(v, n)
    \/ \E v \in DOMAIN views : Pop(v)
    \/ \E v \in DOMAIN views, c \in CharSet : Push(v, c)
    \/ \E v \in DOMAIN views, s \in StrSet : PushStr(v, s)
    \/ \E v \in DOMAIN views, at \in OffsetSet : SplitOff(v, at)
    \/ \E v \in DOMAIN views, s \in StrSet : WriteStr(v, s)
    \/ \E v \in DOMAIN views, c \in CharSet : WriteChar(v, c)
    \/ \E v \in DOMAIN views : RoundTrip(v)
    \/ \E v, w \in DOMAIN views : Eq(v, w)
    \/ \E v, w \in DOMAIN views : Cmp(v, w)

Spec == Init /\ [][Next]_vars

\* Draining the view the constructor built: pop is called again as long as it
\* returned a char (`while let Some(c) = s.pop()`).
DrainPop ==
    /\ status = "running"
    /\ ~(last.op = "pop" /\ last.res = "none")
    /\ Call("pop", 1, -1, -1, << >>, pop(mem, views[1]))

DrainNext ==
    \/ New
    \/ \E len \in OffsetSet : FromUtf8(len)
    \/ TryFromSlice
    \/ DrainPop

\* The loop is sequential code: while pop can be called, it is.
DrainSpec == Init /\ [][DrainNext]_vars /\ WF_vars(DrainPop)

--------------------------------------------------------------------------
(* Properties *)

\* The view the last call was applied to, before and after it.
PreView == pviews[last.v]

CurView == views[last.v]

\* The view a split_off that returned has just created.
NewView == views[Len(views)]

\* The type's invariant on one view: I2 (len <= capacity) and I1 (the occupied
\* bytes are UTF-8).
Valid(m, vw) == vw.len <= vw.cap /\ IsUtf8(as_bytes(m, vw))

\* The storage a view owns.
Range(vw) == (vw.off + 1)..(vw.off + vw.cap)

Appends == {"push", "push_str", "write_str", "write_char"}

\* The number of bytes the last append was asked to add.
NewBytes == IF last.op \in {"push", "write_char"} THEN len_utf8(last.c) ELSE Len(last.s)

\* The views other than the one the last call was applied to are as they were.
OthersUnchanged == \A w \in DOMAIN pviews : w # last.v => views[w] = pviews[w]

\* C1: after every operation of any sequence, the occupied bytes [0, len) of
\* every live view are valid UTF-8.
C1_Utf8Invariant ==
    status = "running" =>
        \A v \in DOMAIN views :
            views[v].len <= views[v].cap => IsUtf8(as_bytes(mem, views[v]))

\* C2: an append (push, write_char, push_str, write_str) on a valid view with
\* len + new_bytes > capacity returns an error and leaves len, capacity and every
\* byte as they were.
C2_FailedAppendAtomic ==
    (last.op \in Appends /\ Valid(pmem, PreView) /\ PreView.len + NewBytes > PreView.cap)
        => /\ status = "running"
           /\ last.res = (IF last.op \in {"push", "push_str"} THEN "err" ELSE "fmt_err")
           /\ views = pviews
           /\ mem = pmem

\* A failed push of a char on a non-empty view, and a failed write_str.
C2_Witness ==
    /\ last.op \in {"push", "write_str"}
    /\ last.res \in {"err", "fmt_err"}
    /\ PreView.len > 0
    /\ PreView.len < PreView.cap

\* C3: push(c) on a valid view with len + encoded_len(c) <= capacity returns
\* success, appends exactly the UTF-8 encoding of c and grows len by encoded_len(c).
C3_PushAppendsEncoding ==
    (last.op = "push" /\ Valid(pmem, PreView)
        /\ PreView.len + len_utf8(last.c) <= PreView.cap)
        => /\ status = "running"
           /\ last.res = "ok"
           /\ CurView.len = PreView.len + len_utf8(last.c)
           /\ as_bytes(mem, CurView) = as_bytes(pmem, PreView) \o encode_utf8(last.c)

\* C4: push(c) that fits, followed by pop() on the same view, returns c and
\* restores the occupied length and bytes (pviews and pmem are the state before
\* the push when the pop is taken).
C4_PushThenPop ==
    [][(/\ last.op = "push"
        /\ last.res = "ok"
        /\ last'.op = "pop"
        /\ last'.v = last.v
        /\ nops' = nops + 1)
        => /\ status' = "running"
           /\ last'.res = "some"
           /\ last'.ret = last.c
           /\ views'[last.v].len = pviews[last.v].len
           /\ as_bytes(mem', views'[last.v]) = as_bytes(pmem, pviews[last.v])]_vars

\* C5: split_off(at) on a valid view of occupied length L, at a char boundary
\* at <= L, leaves the original with length at holding bytes [0, at) and returns
\* a view of length L - at holding bytes [at, L).
C5_SplitOffResult ==
    (last.op = "split_off" /\ Valid(pmem, PreView) /\ last.n <= PreView.len
        /\ is_char_boundary(as_bytes(pmem, PreView), last.n))
        => /\ status = "running"
           /\ last.res = "ok"
           /\ Len(views) = Len(pviews) + 1
           /\ CurView.len = last.n
           /\ NewView.len = PreView.len - last.n
           /\ as_bytes(mem, CurView) = SubSeq(as_bytes(pmem, PreView), 1, last.n)
           /\ as_bytes(mem, NewView)
                = SubSeq(as_bytes(pmem, PreView), last.n + 1, PreView.len)
           /\ as_bytes(mem, CurView) \o as_bytes(mem, NewView) = as_bytes(pmem, PreView)

\* A split strictly inside a text that holds a multi-byte char.
C5_Witness ==
    /\ last.op = "split_off"
    /\ last.res = "ok"
    /\ 0 < last.n
    /\ last.n < PreView.len
    /\ \E i \in 1..PreView.len : pmem[PreView.off + i] >= 128

\* C6 as stated: capacity() of a view is the same after any operation as before.
C6_CapacityFixed ==
    status = "running" => \A w \in DOMAIN pviews : views[w].cap = pviews[w].cap

\* C6 amended: capacity() of a view is unchanged by clear, truncate, pop, push,
\* push_str, write_str and write_char, and by a split_off of another view; a
\* split_off(at) that returns leaves the view it split with capacity at, which
\* is at most its capacity before.
C6_CapacityFixedButSplit ==
    (status = "running" /\ last.op \in Ops) =>
        \A w \in DOMAIN pviews :
            IF last.op = "split_off" /\ w = last.v
            THEN views[w].cap = last.n /\ last.n <= pviews[w].cap
            ELSE views[w].cap = pviews[w].cap

\* A split_off that shrank the capacity of the view it split.
C6_Witness ==
    /\ status = "running"
    /\ last.op = "split_off"
    /\ CurView.cap < PreView.cap
    /\ CurView.cap > 0

\* C7: after every operation every live view has len <= capacity, and no
\* operation writes outside the storage of the view it was applied to.
C7_BoundInvariant ==
    status = "running" =>
        /\ \A v \in DOMAIN views : views[v].len <= views[v].cap
        /\ last.op \in Ops =>
              \A i \in 1..BufLen : mem[i] # pmem[i] => i \in Range(PreView)

\* C8: split_off(at) on a view over storage of capacity C leaves the original
\* owning [0, at) and the returned view owning [at, C), with capacity C - at; the
\* storage of two live views never overlaps, and an operation on one view
\* changes no byte and no field of another.
C8_SplitPartition ==
    status = "running" =>
        /\ \A v, w \in DOMAIN views :
              v # w => Range(views[v]) \cap Range(views[w]) = {}
        /\ \A v \in DOMAIN views : Range(views[v]) \subseteq 1..BufLen
        /\ last.op = "split_off" =>
              /\ CurView.off = PreView.off
              /\ CurView.cap = last.n
              /\ NewView.off = PreView.off + last.n
              /\ NewView.cap = PreView.cap - last.n
        /\ last.op \in Ops =>
              /\ OthersUnchanged
              /\ \A w \in DOMAIN pviews : w # last.v =>
                    \A i \in Range(pviews[w]) : mem[i] = pmem[i]

\* An append that wrote into one of two views made by a split_off.
C8_Witness ==
    /\ status = "running"
    /\ plast.op = "split_off"
    /\ last.op \in {"push", "push_str"}
    /\ last.res = "ok"
    /\ mem # pmem
    /\ \A v \in DOMAIN views : views[v].cap > 0

\* C9: pop() on a non-empty valid view returns the last scalar of the text and
\* shrinks len by its encoded length, leaving the prefix as it was; on an empty
\* view it returns nothing; it never aborts.
C9_Pop ==
    (last.op = "pop" /\ Valid(pmem, PreView))
        => /\ status = "running"
           /\ mem = pmem
           /\ OthersUnchanged
           /\ CurView.off = PreView.off
           /\ CurView.cap = PreView.cap
           /\ IF PreView.len = 0
              THEN last.res = "none" /\ CurView.len = 0
              ELSE /\ last.res = "some"
                   /\ CurView.len = PreView.len - len_utf8(last.ret)
                   /\ as_bytes(pmem, PreView)
                        = as_bytes(mem, CurView) \o encode_utf8(last.ret)

\* A pop that removed a multi-byte char and left a non-empty text.
C9_Witness ==
    /\ last.op = "pop"
    /\ last.res = "some"
    /\ last.ret >= 128
    /\ CurView.len > 0

\* C10: truncate(n) with n >= len (n = len and n > capacity included) on a valid
\* view changes nothing and does not abort; a second truncate(n) after one that
\* returned changes nothing either.
C10_TruncateNoOp ==
    [][(last'.op = "truncate" /\ nops' = nops + 1)
        => LET v == last'.v
               n == last'.n
           IN  /\ (Valid(mem, views[v]) /\ n >= views[v].len)
                     => /\ status' = "running"
                        /\ last'.res = "ok"
                        /\ views' = views
                        /\ mem' = mem
               /\ (last.op = "truncate" /\ last.v = v /\ last.n = n)
                     => /\ status' = "running"
                        /\ last'.res = "ok"
                        /\ views' = views
                        /\ mem' = mem]_vars

\* A second truncate(n) after one that shortened the text to n > 0 bytes.
C10_Witness ==
    /\ status = "running"
    /\ last.op = "truncate"
    /\ plast.op = "truncate"
    /\ plast.v = last.v
    /\ plast.n = last.n
    /\ plast.plen > plast.n
    /\ last.n > 0

\* A truncate beyond the capacity of a non-empty view.
C10_WitnessBeyond ==
    /\ status = "running"
    /\ last.op = "truncate"
    /\ last.n > PreView.cap
    /\ PreView.len > 0


\* The text of the view the last call was applied to, before the call.
PreText == as_bytes(pmem, PreView)

\* Offset n of a valid text s is inside a code point: the first n bytes are
\* not a text of their own.
Misaligned(s, n) == 0 < n /\ n < Len(s) /\ ~IsUtf8(SubSeq(s, 1, n))

\* C11: truncate(n) and split_off(n) on a valid view with 0 < n < len inside a
\* code point abort; no view is left or returned.
C11_MisalignedAborts ==
    (last.op \in {"truncate", "split_off"} /\ Valid(pmem, PreView)
        /\ Misaligned(PreText, last.n))
        => /\ status = "aborted"
           /\ last.res = "abort"
           /\ views = pviews
           /\ mem = pmem

\* A split_off inside a 3- or 4-byte char, after its second byte.
C11_Witness ==
    /\ last.op = "split_off"
    /\ status = "aborted"
    /\ Valid(pmem, PreView)
    /\ Misaligned(PreText, last.n)
    /\ Misaligned(PreText, last.n - 1)

\* C12: truncate(n) on a valid view at a char boundary n < len sets len to n and
\* changes no byte, so the text is the first n bytes of the text before; an
\* append that follows writes its bytes from offset n on.
C12_TruncateEffect ==
    /\ (last.op = "truncate" /\ Valid(pmem, PreView) /\ last.n < PreView.len
          /\ ~Misaligned(PreText, last.n))
          => /\ status = "running"
             /\ last.res = "ok"
             /\ CurView = [PreView EXCEPT !.len = last.n]
             /\ mem = pmem
             /\ as_bytes(mem, CurView) = SubSeq(PreText, 1, last.n)
             /\ OthersUnchanged
    /\ (last.op \in Appends /\ last.res = "ok" /\ plast.op = "truncate"
          /\ plast.res = "ok" /\ plast.v = last.v /\ plast.n < plast.plen)
          => LET data == IF last.op \in {"push", "write_char"}
                         THEN encode_utf8(last.c) ELSE last.s
             IN  /\ PreView.len = plast.n
                 /\ \A i \in 1..Len(data) : mem[CurView.off + plast.n + i] = data[i]
                 /\ \A i \in 1..plast.n : mem[CurView.off + i] = pmem[CurView.off + i]

\* "fo" appended right after a truncate that shortened a text to n > 0 bytes.
C12_Witness ==
    /\ last.op = "push_str"
    /\ last.res = "ok"
    /\ Len(last.s) > 0
    /\ plast.op = "truncate"
    /\ plast.v = last.v
    /\ plast.n > 0
    /\ plast.n < plast.plen

\* C13: push_str(text) on a valid view returns success if and only if
\* len + byte_len(text) <= capacity; on success the text is the text before
\* followed by the bytes of text, and len has grown by byte_len(text).
C13_PushStr ==
    (last.op = "push_str" /\ Valid(pmem, PreView))
        => /\ status = "running"
           /\ last.res = (IF PreView.len + Len(last.s) <= PreView.cap THEN "ok" ELSE "err")
           /\ last.res = "ok" =>
                 /\ CurView = [PreView EXCEPT !.len = PreView.len + Len(last.s)]
                 /\ as_bytes(mem, CurView) = PreText \o last.s

\* A push_str on a non-empty text that exactly fills the capacity.
C13_Witness ==
    /\ last.op = "push_str"
    /\ last.res = "ok"
    /\ PreView.len > 0
    /\ Len(last.s) > 0
    /\ PreView.len + Len(last.s) = PreView.cap


\* C14: from_utf8(region, len) with len <= region size, and the conversion from
\* a byte region (len = region size), return a view if and only if bytes
\* [0, len) are UTF-8; the view has length len, the region's size as capacity
\* and the region's first len bytes as text; otherwise a decode error and no view.
C14_CheckedConstruction ==
    (last.op \in {"from_utf8", "try_from"} /\ last.n <= BufLen)
        => /\ mem = pmem
           /\ last.op = "try_from" => last.n = BufLen
           /\ IF IsUtf8(SubSeq(pmem, 1, last.n))
              THEN /\ status = "running"
                   /\ last.res = "ok"
                   /\ views = <<[off |-> 0, cap |-> BufLen, len |-> last.n]>>
                   /\ as_bytes(mem, views[1]) = SubSeq(pmem, 1, last.n)
              ELSE /\ status = "failed"
                   /\ last.res = "utf8_err"
                   /\ views = << >>

\* A region that holds a multi-byte char converted into a full view.
C14_Witness ==
    /\ last.op = "try_from"
    /\ last.res = "ok"
    /\ views[1].len = views[1].cap
    /\ \E i \in 1..BufLen : mem[i] >= 128

\* A decode error for a length that ends inside a code point.
C14_WitnessError ==
    /\ last.op = "from_utf8"
    /\ last.res = "utf8_err"
    /\ last.ret > 0
    /\ last.ret < last.n

\* C15: converting a valid view into (region, length) and rebuilding it with
\* from_utf8_unchecked gives a view with the same text, len and capacity.
C15_RoundTrip ==
    (last.op = "round_trip" /\ Valid(pmem, PreView))
        => /\ status = "running"
           /\ last.res = "ok"
           /\ mem = pmem
           /\ CurView.len = PreView.len
           /\ CurView.cap = PreView.cap
           /\ as_bytes(mem, CurView) = PreText

\* The round trip of a view that split_off returned, partly filled.
C15_Witness ==
    /\ last.op = "round_trip"
    /\ last.res = "ok"
    /\ PreView.off > 0
    /\ PreView.len > 0
    /\ PreView.len < PreView.cap

\* a sorts before b in the lexicographic order of byte sequences.
LexLess(a, b) ==
    \E k \in 0..Len(a) :
        /\ k <= Len(b)
        /\ \A i \in 1..k : a[i] = b[i]
        /\ IF k = Len(a) THEN k < Len(b) ELSE k < Len(b) /\ a[k + 1] < b[k + 1]

\* C16: equality and ordering of two valid views are the equality and the
\* lexicographic ordering of their occupied bytes, whatever their capacities and
\* the bytes beyond len; comparing changes nothing.
C16_CompareText ==
    (last.op \in {"eq", "cmp"} /\ Valid(pmem, PreView) /\ Valid(pmem, pviews[last.n]))
        => LET a == PreText
               b == as_bytes(pmem, pviews[last.n])
           IN  /\ status = "running"
               /\ views = pviews
               /\ mem = pmem
               /\ last.op = "eq" => last.res = (IF a = b THEN "true" ELSE "false")
               /\ last.op = "cmp" =>
                     last.res = (IF LexLess(a, b) THEN "Less"
                                 ELSE IF LexLess(b, a) THEN "Greater" ELSE "Equal")
               /\ last.op = "cmp" => (last.res = "Equal" <=> a = b)

\* Two views with the same non-empty text, different capacities and a stale
\* byte behind one of them compare equal.
C16_Witness ==
    /\ last.op = "eq"
    /\ last.res = "true"
    /\ last.v # last.n
    /\ PreView.len > 0
    /\ PreView.cap # pviews[last.n].cap
    /\ pviews[last.n].len < pviews[last.n].cap


\* C17: push and push_str on a valid view return success or a capacity error and
\* never abort; push returns the error if and only if
\* len + encoded_len(c) > capacity.
C17_AppendsNeverAbort ==
    (last.op \in {"push", "push_str"} /\ Valid(pmem, PreView))
        => /\ status = "running"
           /\ last.res \in {"ok", "err"}
           /\ last.op = "push" =>
                 (last.res = "err" <=> PreView.len + len_utf8(last.c) > PreView.cap)

\* C18: split_off(at) on a valid view with len < at <= capacity either aborts or
\* leaves two views that satisfy I1 and I2, the original no longer than before.
C18_SplitBeyondLen ==
    (last.op = "split_off" /\ Valid(pmem, PreView) /\ PreView.len < last.n
        /\ last.n <= PreView.cap)
        => \/ status = "aborted"
           \/ /\ status = "running"
              /\ CurView.len <= PreView.len
              /\ NewView.len <= NewView.cap
              /\ Valid(mem, CurView)
              /\ Valid(mem, NewView)

\* C19: clear, truncate and pop never lengthen the text and change no byte of
\* the text they keep; a successful append changes no byte of the text before
\* it; a failed append changes no byte at all.
C19_PrefixStable ==
    status = "running" =>
        /\ last.op \in {"clear", "truncate", "pop"} =>
              /\ CurView.len <= PreView.len
              /\ \A i \in 1..CurView.len : mem[CurView.off + i] = pmem[PreView.off + i]
              /\ CurView.off = PreView.off
        /\ (last.op \in Appends /\ last.res = "ok") =>
              /\ CurView.len >= PreView.len
              /\ \A i \in 1..PreView.len : mem[CurView.off + i] = pmem[PreView.off + i]
              /\ CurView.off = PreView.off
        /\ (last.op \in Appends /\ last.res \in {"err", "fmt_err"}) => mem = pmem

\* A multi-byte char pushed behind a non-empty text.
C19_Witness ==
    /\ status = "running"
    /\ last.op = "push"
    /\ last.res = "ok"
    /\ last.c >= 128
    /\ PreView.len > 0


\* The number of scalars of a valid text: its bytes that start a code point.
NumScalars(s) == Cardinality({i \in 1..Len(s) : ~IsCont(s[i])})

\* The text whose scalars are those of p, last to first.
RECURSIVE EncodeRev(_)
EncodeRev(p) == IF p = << >> THEN << >> ELSE EncodeRev(Tail(p)) \o encode_utf8(Head(p))

\* pop has returned nothing.
Drained == last.op = "pop" /\ last.res = "none"

\* C20: each pop on a non-empty valid view shortens len by the 1 to 4 bytes of
\* the char it returns; calling pop repeatedly ends with pop returning nothing
\* and len = 0, after as many chars as the text had scalars, returned last to
\* first.
C20_DrainTerminates ==
    /\ [](last.op = "pop" =>
            /\ status = "running"
            /\ last.res = "some" =>
                  /\ PreView.len - CurView.len = len_utf8(last.ret)
                  /\ PreView.len - CurView.len \in 1..4
                  /\ Len(popped) <= NumScalars(text0))
    /\ [](Drained =>
            /\ views[1].len = 0
            /\ Len(popped) = NumScalars(text0)
            /\ EncodeRev(popped) = text0)
    /\ (status = "running" ~> Drained)

\* A text of several scalars, one of them multi-byte, drained to the end.
C20_Witness ==
    /\ Drained
    /\ Len(popped) >= 2
    /\ \E i \in 1..Len(popped) : popped[i] >= 128
    /\ \E i \in 1..Len(popped) : popped[i] < 128

====
